---- MODULE Spec2Model ----
(***************************************************************************)
(* Model of the phrase matcher of modulo_pln_vf:                           *)
(*   app/preprocess.py       text normalisation, fuzzy correction,         *)
(*                           leet-speak normalisation, spelling-out        *)
(*   app/matcher_improved.py ImprovedPhraseMatcher.search_similar_phrase   *)
(*                           and the stages it calls                       *)
(*                                                                         *)
(* Texts are sequences of characters, a character being a one-symbol       *)
(* string.  The module is kept in ASCII, so the non-ASCII characters of    *)
(* the program are written with a mark after the base letter:              *)
(*   "a'" "e'" "i'" "o'" "u'"  the acute-accented vowels, "n~" the enye,   *)
(*   "A'" ... "N~"             their upper-case forms,                     *)
(*   "!inv" "?inv"             the inverted exclamation and question mark. *)
(* Similarities are integers in hundredths (0.85 is 85): every threshold,  *)
(* boost, bonus and penalty of the program is a whole number of            *)
(* hundredths.                                                             *)
(***************************************************************************)
EXTENDS Integers, Sequences, FiniteSets, TLC

VARIABLES
    use_reranking,  \* ImprovedPhraseMatcher.use_reranking (constructor flag)
    pc,             \* "ready": no search made yet; "done": a search returned
    query,          \* the raw query of the search (a text)
    oracle,         \* what the encoder answered for this query's canonical form
    trace,          \* the values search_similar_phrase computed on its way
    result,         \* the dictionary search_similar_phrase returned
    in_text,        \* the text given to a function of app/preprocess.py
    text_out,       \* what that function returned
    env,            \* what the process runs in: can the encoder model be loaded,
                    \* can the cache file be written
    cache_file,     \* the file at ImprovedPhraseMatcher.cache_path
    matcher,        \* the global matcher of app/main.py: None or the object
    app,            \* "created", or how startup_event ended: "up", "failed"
    req,            \* the POST /buscar request each worker is serving
    answers         \* per texto, the bodies of the 200 responses sent so far

service_vars == <<env, cache_file, matcher, app, req, answers>>

vars == <<use_reranking, pc, query, oracle, trace, result, in_text, text_out,
          env, cache_file, matcher, app, req, answers>>

(***************************************************************************)
(* Generic helpers on sequences.                                           *)
(***************************************************************************)
Range(s) == {s[i] : i \in 1..Len(s)}

IndexOf(s, c) == CHOOSE i \in 1..Len(s) : s[i] = c

Max2(a, b) == IF a >= b THEN a ELSE b

Min2(a, b) == IF a <= b THEN a ELSE b

Abs(a) == IF a < 0 THEN 0 - a ELSE a

\* The characters of s at the positions Keep accepts, in order.
FilterIdx(s, Keep(_)) ==
    LET f[i \in 0..Len(s)] ==
            IF i = 0 THEN <<>>
            ELSE IF Keep(i) THEN Append(f[i - 1], s[i]) ELSE f[i - 1]
    IN f[Len(s)]

MapSeq(s, F(_)) == [i \in 1..Len(s) |-> F(s[i])]

\* The element of a one-element set.  An intermediate value v of the program is
\* bound once as  The({Body(x) : x \in {v}})  and used through x.
The(S) == CHOOSE x \in S : TRUE

(***************************************************************************)
(* Character classes, as Python's str methods and the re module see them.  *)
(***************************************************************************)
LowerLetters ==
    <<"a","b","c","d","e","f","g","h","i","j","k","l","m",
      "n","o","p","q","r","s","t","u","v","w","x","y","z">>

UpperLetters ==
    <<"A","B","C","D","E","F","G","H","I","J","K","L","M",
      "N","O","P","Q","R","S","T","U","V","W","X","Y","Z">>

AccentedLower == <<"a'", "e'", "i'", "o'", "u'", "n~">>

AccentedUpper == <<"A'", "E'", "I'", "O'", "U'", "N~">>

\* The base letter NFD decomposition leaves once the combining mark is dropped.
AccentBaseLower == <<"a", "e", "i", "o", "u", "n">>

AccentBaseUpper == <<"A", "E", "I", "O", "U", "N">>

Digits == {"0","1","2","3","4","5","6","7","8","9"}

\* The characters str.strip, str.split and \s of the re module treat as
\* whitespace, written as the characters themselves: the space, tab, newline,
\* carriage return, form feed, then the vertical tab (U+000B), the four
\* separators U+001C to U+001F, the next line (U+0085) and the no-break space
\* (U+00A0).  The whitespace characters above U+00FF cannot be written in a
\* string of the module.
Whitespace ==
    {" ", "\t", "\n", "\r", "\f", "", "", "", "", "",
     "", " "}

IsLowerChar(c) == c \in Range(LowerLetters) \cup Range(AccentedLower)

IsUpperChar(c) == c \in Range(UpperLetters) \cup Range(AccentedUpper)

\* str.isalpha() of one character
IsAlpha(c) == IsLowerChar(c) \/ IsUpperChar(c)

\* str.isdigit() of one character
IsDigit(c) == c \in Digits

\* \w of the re module: letters, digits and the underscore
IsWordChar(c) == IsAlpha(c) \/ IsDigit(c) \/ c = "_"

\* str.lower() of one character
LowerChar(c) ==
    IF c \in Range(UpperLetters) THEN LowerLetters[IndexOf(UpperLetters, c)]
    ELSE IF c \in Range(AccentedUpper) THEN AccentedLower[IndexOf(AccentedUpper, c)]
    ELSE c

\* str.upper() of one character
UpperChar(c) ==
    IF c \in Range(LowerLetters) THEN UpperLetters[IndexOf(LowerLetters, c)]
    ELSE IF c \in Range(AccentedLower) THEN AccentedUpper[IndexOf(AccentedLower, c)]
    ELSE c

Lower(text) == MapSeq(text, LowerChar)

Upper(text) == MapSeq(text, UpperChar)

\* str.isupper(): some cased character, and no lower-case one
IsUpperStr(text) ==
    /\ \E i \in 1..Len(text) : IsUpperChar(text[i])
    /\ \A i \in 1..Len(text) : ~IsLowerChar(text[i])

\* str.islower(): some cased character, and no upper-case one
IsLowerStr(text) ==
    /\ \E i \in 1..Len(text) : IsLowerChar(text[i])
    /\ \A i \in 1..Len(text) : ~IsUpperChar(text[i])

\* str.strip()
Strip(text) ==
    LET idx == {i \in 1..Len(text) : text[i] \notin Whitespace}
    IN IF idx = {} THEN <<>>
       ELSE LET lo == CHOOSE i \in idx : \A j \in idx : i <= j
                hi == CHOOSE i \in idx : \A j \in idx : i >= j
            IN SubSeq(text, lo, hi)

\* str.split(): the maximal runs of non-whitespace characters
Split(text) ==
    LET n == Len(text)
        starts == {i \in 1..n : text[i] \notin Whitespace
                                /\ (i = 1 \/ text[i - 1] \in Whitespace)}
        EndOf(i) == CHOOSE j \in i..n :
                        /\ \A k \in i..j : text[k] \notin Whitespace
                        /\ (j = n \/ text[j + 1] \in Whitespace)
        f[i \in 0..n] ==
            IF i = 0 THEN <<>>
            ELSE IF i \in starts THEN Append(f[i - 1], SubSeq(text, i, EndOf(i)))
            ELSE f[i - 1]
    IN f[n]

\* " ".join(tokens), tokens being strings: the tokens with " " between them
JoinSpaces(tokens) ==
    [i \in 1..(IF Len(tokens) = 0 THEN 0 ELSE 2 * Len(tokens) - 1) |->
        IF i % 2 = 1 THEN tokens[(i + 1) \div 2] ELSE " "]

(***************************************************************************)
(* app/preprocess.py                                                       *)
(***************************************************************************)

\* One re.sub of remove_repeated_punctuation: every maximal run of two or more
\* characters of marks is replaced by one character.  For the class [,;:] the
\* replacement is group 1, which holds the last character the group matched.
CollapseRuns(text, marks) ==
    LET Keep(i) == ~(text[i] \in marks /\ i < Len(text) /\ text[i + 1] \in marks)
    IN FilterIdx(text, Keep)

remove_repeated_punctuation(text) ==
    The({CollapseRuns(t3, {",", ";", ":"}) :
            t3 \in {CollapseRuns(t2, {"."}) :
                t2 \in {CollapseRuns(t1, {"?"}) :
                    t1 \in {CollapseRuns(text, {"!"})}}}})

\* A normalization that keeps the diacritics, against which the accent
\* properties are tested
KeepAccentChar(c) == c

\* unicodedata.normalize('NFD', c) with the characters of category Mn dropped
StripAccentChar(c) ==
    IF c \in Range(AccentedLower) THEN AccentBaseLower[IndexOf(AccentedLower, c)]
    ELSE IF c \in Range(AccentedUpper) THEN AccentBaseUpper[IndexOf(AccentedUpper, c)]
    ELSE c

\* re.sub(r'[^\w\s]', ' ', text) on one character
CleanChar(c) == IF IsWordChar(c) \/ c \in Whitespace THEN c ELSE " "

\* re.sub(r'\s+', ' ', text): only the first character of a whitespace run stays
CollapseSpaces(text) ==
    LET Keep(i) == ~(text[i] \in Whitespace /\ i > 1 /\ text[i - 1] \in Whitespace)
        Blank(c) == IF c \in Whitespace THEN " " ELSE c
    IN The({MapSeq(kept, Blank) : kept \in {FilterIdx(text, Keep)}})

\* normalize_text: lower, collapse repeated punctuation, strip accents, blank
\* the special characters, collapse the whitespace, strip
normalize_text(text) ==
    The({Strip(spaced) :
          spaced \in {CollapseSpaces(cleaned) :
            cleaned \in {MapSeq(unaccented, CleanChar) :
              unaccented \in {MapSeq(collapsed, StripAccentChar) :
                collapsed \in {remove_repeated_punctuation(lowered) :
                  lowered \in {Lower(text)}}}}}})

\* One row of the longest-common-subsequence table, from the row before
LCSRow(s, t, prev, i) ==
    LET g[j \in 0..Len(t)] ==
            IF j = 0 THEN <<>>
            ELSE The({Append(r, IF s[i] = t[j]
                                THEN (IF j = 1 THEN 0 ELSE prev[j - 1]) + 1
                                ELSE Max2(prev[j], IF j = 1 THEN 0 ELSE r[j - 1])) :
                        r \in {g[j - 1]}})
    IN g[Len(t)]

\* Length of a longest common subsequence of s and t
LCSLen(s, t) ==
    LET f[i \in 0..Len(s)] ==
            IF i = 0 THEN [j \in 1..Len(t) |-> 0]
            ELSE The({LCSRow(s, t, prev, i) : prev \in {f[i - 1]}})
    IN IF Len(s) = 0 \/ Len(t) = 0 THEN 0 ELSE f[Len(s)][Len(t)]

\* rapidfuzz.fuzz.ratio: 100 * 2*LCS / (len(s) + len(t)), and 100 for two empty
\* texts; kept as the exact fraction num/den.
fuzz_ratio(s, t) ==
    IF Len(s) + Len(t) = 0 THEN [num |-> 100, den |-> 1]
    ELSE [num |-> 200 * LCSLen(s, t), den |-> Len(s) + Len(t)]

RatioGT(a, b) == a.num * b.den > b.num * a.den

RatioGE(a, b) == a.num * b.den >= b.num * a.den

SpellingCorrectionThreshold == 80

\* The loop of light_spelling_correction with >= in place of >
CorrectionStepLastWins(before, phrase, score, threshold) ==
    IF RatioGE(score, before.best_score)
       /\ RatioGE(score, [num |-> threshold, den |-> 1])
    THEN [best_match |-> phrase, best_score |-> score]
    ELSE before

\* One iteration of the loop of light_spelling_correction
CorrectionStep(before, phrase, score, threshold) ==
    IF RatioGT(score, before.best_score)
       /\ RatioGE(score, [num |-> threshold, den |-> 1])
    THEN [best_match |-> phrase, best_score |-> score]
    ELSE before

\* The loop of light_spelling_correction over the reference phrases; qn is the
\* normalized query
CorrectionScan(qn, reference_phrases, threshold) ==
    LET f[n \in 0..Len(reference_phrases)] ==
            IF n = 0 THEN [best_match |-> <<>>, best_score |-> [num |-> 0, den |-> 1]]
            ELSE The({CorrectionStep(before, reference_phrases[n], score, threshold) :
                        before \in {f[n - 1]},
                        score \in {The({fuzz_ratio(qn, pn) :
                                    pn \in {normalize_text(reference_phrases[n])}})}})
    IN f[Len(reference_phrases)]

light_spelling_correction(q, reference_phrases, threshold) ==
    The({IF scan.best_match # <<>>
            /\ RatioGE(scan.best_score, [num |-> threshold, den |-> 1])
         THEN scan.best_match
         ELSE q :
            scan \in {The({CorrectionScan(qn, reference_phrases, threshold) :
                        qn \in {normalize_text(q)}})}})

preprocess_query(q, reference_phrases) ==
    IF reference_phrases # <<>>
    THEN The({normalize_text(corrected) :
                corrected \in {light_spelling_correction(q, reference_phrases,
                                    SpellingCorrectionThreshold)}})
    ELSE normalize_text(q)

preprocess_phrases(phrases) == [i \in 1..Len(phrases) |-> normalize_text(phrases[i])]

\* leet_map of normalize_leet_speak
LeetKeys == {"@", "4", "3", "1", "!", "0", "5", "$", "7", "+", "8", "9", "6"}

leet_map(c) ==
    CASE c \in {"@", "4"} -> "a"
      [] c = "3" -> "e"
      [] c \in {"1", "!"} -> "i"
      [] c = "0" -> "o"
      [] c \in {"5", "$"} -> "s"
      [] c \in {"7", "+"} -> "t"
      [] c = "8" -> "b"
      [] c \in {"9", "6"} -> "g"

\* A loop body that copies every character, against which the spelling of
\* leet characters is tested
LeetStepCopy(normalized, char, i) == Append(normalized, char)

\* One iteration of the loop of normalize_leet_speak: the character at
\* position i (Python's i - 1) appended to normalized
LeetStep(normalized, char, i) ==
    IF LowerChar(char) \in LeetKeys
    THEN IF (IF i = 1
             THEN IsUpperChar(char) \/ ~IsAlpha(char)
             ELSE /\ normalized # <<>>
                  /\ IsUpperChar(normalized[1])
                  /\ char = UpperChar(char)
                  /\ Len(normalized) = 1)
         THEN Append(normalized, UpperChar(leet_map(LowerChar(char))))
         ELSE Append(normalized, leet_map(LowerChar(char)))
    ELSE Append(normalized, char)

normalize_leet_speak(text) ==
    LET f[i \in 0..Len(text)] ==
            IF i = 0 THEN <<>>
            ELSE The({LeetStep(normalized, text[i], i) : normalized \in {f[i - 1]}})
    IN f[Len(text)]

\* special_chars.get(char, f"caracter especial: {char}") of spell_out_text
\* (the names are written without accents)
special_chars(c) ==
    CASE c = "." -> "punto"
      [] c = "," -> "coma"
      [] c = ";" -> "punto y coma"
      [] c = ":" -> "dos puntos"
      [] c = "!" -> "exclamacion"
      [] c = "?" -> "interrogacion"
      [] c = "-" -> "guion"
      [] c = "_" -> "guion bajo"
      [] c = "@" -> "arroba"
      [] c = "#" -> "numeral"
      [] c = "$" -> "dolar"
      [] c = "%" -> "porcentaje"
      [] c = "&" -> "ampersand"
      [] c = "/" -> "barra"
      [] c = "(" -> "parentesis abierto"
      [] c = ")" -> "parentesis cerrado"
      [] c = "[" -> "corchete abierto"
      [] c = "]" -> "corchete cerrado"
      [] c = "{" -> "llave abierta"
      [] c = "}" -> "llave cerrada"
      [] c = "+" -> "mas"
      [] c = "=" -> "igual"
      [] c = "*" -> "asterisco"
      [] c = "\\" -> "barra invertida"
      [] c = "\"" -> "comillas"
      [] c = "'" -> "comilla simple"
      [] OTHER -> "caracter especial: " \o c

Digraphs == {<<"L", "L">>, <<"R", "R">>, <<"C", "H">>}

DigraphToken(pair) ==
    CASE pair = <<"L", "L">> -> "LL"
      [] pair = <<"R", "R">> -> "RR"
      [] pair = <<"C", "H">> -> "CH"

\* A test that knows LL and RR only, against which the digraph rule is tested
IsDigraphAtNoCH(text_upper, i) ==
    /\ i + 1 <= Len(text_upper)
    /\ SubSeq(text_upper, i, i + 1) \in {<<"L", "L">>, <<"R", "R">>}

\* The tests of lines 207, 213 and 219 at position i (1-based)
IsDigraphAt(text_upper, i) ==
    /\ i + 1 <= Len(text_upper)
    /\ SubSeq(text_upper, i, i + 1) \in Digraphs

\* A space that is always spelled, against which include_spaces is tested
SpaceTokenAlways(tokens, include_spaces) == Append(tokens, "espacio")

\* Lines 224-226: the token of a space
SpaceToken(tokens, include_spaces) ==
    IF include_spaces THEN Append(tokens, "espacio") ELSE tokens

\* One iteration of the while loop of spell_out_text on the upper-cased text:
\* st is <<i, result>>, i the next position (1-based)
SpellStep(text_upper, include_spaces, st) ==
    IF st.i > Len(text_upper) THEN st
    ELSE IF IsDigraphAt(text_upper, st.i)
    THEN [i |-> st.i + 2,
          result |-> Append(st.result,
                            DigraphToken(SubSeq(text_upper, st.i, st.i + 1)))]
    ELSE [i |-> st.i + 1,
          result |->
            IF text_upper[st.i] = " "
            THEN SpaceToken(st.result, include_spaces)
            ELSE IF IsAlpha(text_upper[st.i]) \/ IsDigit(text_upper[st.i])
            THEN Append(st.result, text_upper[st.i])
            ELSE Append(st.result, special_chars(text_upper[st.i]))]

\* The while loop of spell_out_text; it runs at most Len(text) times.
SpellLoop(text_upper, include_spaces) ==
    LET f[k \in 0..Len(text_upper)] ==
            IF k = 0 THEN [i |-> 1, result |-> <<>>]
            ELSE The({SpellStep(text_upper, include_spaces, st) : st \in {f[k - 1]}})
    IN f[Len(text_upper)].result

spell_out_text(text, include_spaces) ==
    IF text = <<>> THEN <<>>
    ELSE The({SpellLoop(text_upper, include_spaces) : text_upper \in {Upper(text)}})

(***************************************************************************)
(* app/matcher_improved.py: configuration tables                           *)
(***************************************************************************)

\* Optional values: None, or Some(x).
None == <<>>

Some(x) == <<x>>

\* No clamping at all, against which the range properties are tested
NoClip(similarity) == similarity

\* clip_similarity: np.clip(similarity, 0.0, 1.0)
clip_similarity(similarity) == Max2(0, Min2(100, similarity))

\* GROUP_THRESHOLDS.get(grupo, 0.70)
GROUP_THRESHOLDS(grupo) ==
    CASE grupo = "A" -> 60
      [] grupo = "B" -> 63
      [] grupo = "C" -> 78
      [] OTHER -> 70

\* Spelling thresholds that lie below the match thresholds
SpellOutThresholdsLenient(grupo) ==
    CASE grupo = "A" -> 55
      [] grupo = "B" -> 60
      [] grupo = "C" -> 70
      [] OTHER -> 60

\* SPELL_OUT_THRESHOLDS.get(grupo, 0.60)
SPELL_OUT_THRESHOLDS(grupo) ==
    CASE grupo = "A" -> 75
      [] grupo = "B" -> 80
      [] grupo = "C" -> 85
      [] OTHER -> 60

COMMON_SPANISH_NAMES ==
    { <<"j","u","a","n">>, <<"j","o","s","e">>, <<"a","n","t","o","n","i","o">>,
      <<"m","a","n","u","e","l">>, <<"f","r","a","n","c","i","s","c","o">>,
      <<"d","a","v","i","d">>, <<"c","a","r","l","o","s">>,
      <<"m","i","g","u","e","l">>, <<"p","e","d","r","o">>, <<"l","u","i","s">>,
      <<"j","e","s","u","s">>, <<"p","a","b","l","o">>,
      <<"j","a","v","i","e","r">>, <<"s","e","r","g","i","o">>,
      <<"r","a","f","a","e","l">>, <<"d","a","n","i","e","l">>,
      <<"j","o","r","g","e">>, <<"a","l","b","e","r","t","o">>,
      <<"f","e","r","n","a","n","d","o">>, <<"r","i","c","a","r","d","o">>,
      <<"a","l","e","j","a","n","d","r","o">>, <<"a","d","r","i","a","n">>,
      <<"a","n","d","r","e","s">>, <<"r","a","u","l">>,
      <<"e","n","r","i","q","u","e">>, <<"i","v","a","n">>,
      <<"m","a","r","i","a">>, <<"c","a","r","m","e","n">>, <<"a","n","a">>,
      <<"i","s","a","b","e","l">>, <<"p","i","l","a","r">>,
      <<"t","e","r","e","s","a">>, <<"r","o","s","a">>, <<"l","a","u","r","a">>,
      <<"m","a","r","t","a">>, <<"e","l","e","n","a">>, <<"s","a","r","a">>,
      <<"l","u","c","i","a">>, <<"p","a","u","l","a">>, <<"s","o","f","i","a">>,
      <<"c","r","i","s","t","i","n","a">>, <<"a","n","d","r","e","a">>,
      <<"j","u","l","i","a">>, <<"r","a","q","u","e","l">>,
      <<"b","e","a","t","r","i","z">>, <<"p","a","t","r","i","c","i","a">> }

\* The fixed words search_similar_phrase adds to palabras_conocidas
ExtraKnownWords ==
    { <<"a","y","u","d","a">>, <<"h","o","l","a">>, <<"g","r","a","c","i","a","s">>,
      <<"b","i","e","n">>, <<"m","a","l">>, <<"s","i">>, <<"n","o">>,
      <<"v","a","l","e">>, <<"o","k">>, <<"p","e","r","d","o","n">>,
      <<"e","s","p","e","r","a">>, <<"e","n","t","i","e","n","d","o">>,
      <<"a","u","x","i","l","i","o">>, <<"s","o","c","o","r","r","o">>,
      <<"d","o","c","t","o","r">>, <<"h","o","s","p","i","t","a","l">>,
      <<"s","a","l","i","d","a">>, <<"f","u","e","g","o">>,
      <<"u","r","g","e","n","t","e">>, <<"a","l","t","o">>, <<"a","y","d","a">>,
      <<"o","l","a">>, <<"h","l","a">>, <<"g","r","c","i","a","s">> }

(***************************************************************************)
(* The phrase catalog (data/grupos.json, read by get_all_phrases): three   *)
(* groups in the file's order, with phrases the sources name.              *)
(***************************************************************************)
Groups == <<"A", "B", "C">>

grupos_frases ==
    [g \in Range(Groups) |->
        CASE g = "A" -> << <<"!inv","A","l","t","o","!">>,
                           <<"A","y","u","d","a",","," ","p","o","r"," ",
                             "f","a","v","o","r">> >>
          [] g = "B" -> << <<"H","o","l","a">>,
                           <<"B","u","e","n","o","s"," ","d","i'","a","s">> >>
          [] g = "C" -> << <<"G","r","a","c","i","a","s">> >>]

\* all_phrases: the phrases of every group, in dictionary order
all_phrases ==
    LET f[k \in 0..Len(Groups)] ==
            IF k = 0 THEN <<>> ELSE f[k - 1] \o grupos_frases[Groups[k]]
    IN f[Len(Groups)]

\* A phrase is named by its group and its index in the group
PhraseIds ==
    UNION {{<<g, i>> : i \in 1..Len(grupos_frases[g])} : g \in Range(Groups)}

\* len(frase.split()) of every phrase (line 335)
PhraseWordCount ==
    [p \in PhraseIds |-> The({Len(Split(frase)) : frase \in {grupos_frases[p[1]][p[2]]}})]

\* The texts the encoder received for the phrases: preprocess_phrases(frases)
\* (line 180)
PhraseEncoded ==
    [p \in PhraseIds |-> The({normalize_text(frase) : frase \in {grupos_frases[p[1]][p[2]]}})]

\* palabras_conocidas: the words of the normalized catalog phrases plus the
\* fixed extra words (lines 412-425)
WordsOf(text) == The({Range(words) : words \in {Split(text)}})

palabras_conocidas ==
    UNION {The({WordsOf(encoded) : encoded \in {PhraseEncoded[p]}}) : p \in PhraseIds}
        \cup ExtraKnownWords

(***************************************************************************)
(* The queries of the model.                                               *)
(***************************************************************************)

\* The longest run of one punctuation mark appended to a query
MaxPunctRun == 4

Repeat(c, n) == [i \in 1..n |-> c]

QGracias == <<"g","r","a","c","i","a","s">>

QHola == <<"h","o","l","a">>

BaseQueries ==
    { QHola,
      <<"H","o","l","a">>,
      <<"H","O","L","A">>,
      <<"H","o","L","a">>,
      QHola \o Repeat("!", 3),
      QGracias,
      <<"B","u","e","n","o","s"," ","d","i'","a","s">>,
      <<"b","u","e","n","o","s"," ","d","i","a","s">>,
      <<"m","e'","d","i","c","o">>,
      <<"m","e","d","i","c","o">>,
      <<"M","e","d","i","c","o">>,
      <<"J","u","a","n">>,
      <<"a","l","e","j","a","n","d","r","o">>,
      <<"M","4","r","i","@">>,
      <<"x","y","z","1","2","3">>,
      <<"x","3","1","!","0","5","$","7","+","8","9","6">>,
      <<"H","o","l","a"," ","M","u","n","d","o">>,
      <<"H","o","l","a"," ","m","u","n","d","o">>,
      <<"d","i'","a","s">>,
      <<"\t","J","u","a","n">> }

PunctuatedQueries == {QGracias \o Repeat(".", k) : k \in 1..MaxPunctRun}

Queries == BaseQueries \cup PunctuatedQueries

(***************************************************************************)
(* What search_similar_phrase computes from the text of the query alone.   *)
(***************************************************************************)

\* The canonical query: preprocess_query(query, all_phrases) (lines 249-254)
Canonical(q) == preprocess_query(q, all_phrases)

\* The query stripped but not lower-cased, against which the case properties
\* are tested
QueryStripped(q) == Strip(q)

\* query.strip().lower() (line 403)
QueryNormalized(q) == The({Lower(stripped) : stripped \in {Strip(q)}})

\* One word of 3 to 8 characters (lines 404-410); qn is the normalized query
IsSingleShortWord(qn) ==
    The({Len(query_words) = 1
         /\ 3 <= Len(query_words[1]) /\ Len(query_words[1]) <= 8 :
            query_words \in {Split(qn)}})

\* The condition of VALIDACION 3 on the raw query (line 444)
IsTitleCase(q) ==
    /\ Len(q) > 2
    /\ IsUpperStr(<<q[1]>>)
    /\ Len(q) > 1
    /\ IsLowerStr(SubSeq(q, 2, Len(q)))

\* The length difference the penalty is computed from, or 0 when the query or
\* the phrase is not a single word (lines 452-461)
LengthDiff(q, frase) ==
    The({IF Len(query_words) = 1 /\ Len(frase_words) = 1
         THEN Abs(Len(query_words[1]) - Len(frase_words[1]))
         ELSE 0 :
            query_words \in {The({Split(stripped) : stripped \in {Strip(q)}})},
            frase_words \in {The({Split(stripped) : stripped \in {Strip(frase)}})}})

\* The spelling of the canonical query instead of the raw one, against which
\* the shape of a spell-out is tested
DeletreoOfCanonical(q) ==
    The({spell_out_text(canonical, TRUE) : canonical \in {Canonical(q)}})

\* The spelling of the query (lines 479-482)
Deletreo(q) ==
    The({spell_out_text(normalized_query, TRUE) :
            normalized_query \in {normalize_leet_speak(q)}})

QueryTextFacts(q, qn) ==
    [canonical |-> Canonical(q),
     single_short_word |-> IsSingleShortWord(qn),
     is_common_name |-> qn \in COMMON_SPANISH_NAMES,
     is_known_word |-> qn \in palabras_conocidas,
     title_case |-> IsTitleCase(q),
     length_diff |-> [p \in PhraseIds |->
                        The({LengthDiff(q, frase) :
                                frase \in {grupos_frases[p[1]][p[2]]}})],
     deletreo_list |-> Deletreo(q)]

\* The facts of every query of the model, computed once
QueryFacts ==
    [q \in Queries |-> The({QueryTextFacts(q, qn) : qn \in {QueryNormalized(q)}})]

(***************************************************************************)
(* The sentence encoder.  The encoder is an external model: what the       *)
(* matcher sees of it is, for a canonical query, the raw cosine similarity *)
(* with the centroid of every group (cent) and with every catalog phrase   *)
(* (phr).  An answer of the encoder is any such record in which a phrase   *)
(* whose encoded text is the canonical query itself has cosine 1.0: the    *)
(* encoder is a function of the text and its embeddings have unit norm.    *)
(***************************************************************************)

\* Raw cosine similarities of a query with a catalog phrase, in hundredths
PhraseScores == {-10, 55, 80, 96}

\* Raw cosine similarities of a query with a group centroid, in hundredths
CentroidScores == {-5, 50}

\* The catalog phrases whose encoded text is the canonical text
ExactPhrases(canonical) == {p \in PhraseIds : PhraseEncoded[p] = canonical}

OracleAnswersFor(exact) ==
    {[cent |-> c, phr |-> [p \in PhraseIds |-> IF p \in exact THEN 100 ELSE f[p]]] :
        c \in [Range(Groups) -> CentroidScores],
        f \in [PhraseIds \ exact -> PhraseScores]}

\* The answers the encoder can give for query q
OracleAnswers(q) ==
    The({OracleAnswersFor(exact) : exact \in {ExactPhrases(QueryFacts[q].canonical)}})

(***************************************************************************)
(* app/matcher_improved.py: stage 2 and stage 3                            *)
(***************************************************************************)

\* cosine_similarity([query_embedding], embeddings)[0] for one group
GroupSimilarities(o, grupo) ==
    [idx \in 1..Len(grupos_frases[grupo]) |-> o.phr[<<grupo, idx>>]]

\* np.argmax: the first index of the largest value
ArgMax(sims) ==
    CHOOSE i \in 1..Len(sims) :
        /\ \A j \in 1..Len(sims) : sims[j] <= sims[i]
        /\ \A j \in 1..(i - 1) : sims[j] < sims[i]

\* A descending sort that puts the later of two equal scores first
SortTiesReversed(group_scores) ==
    LET n == Len(group_scores)
        Before(a, b) ==
            \/ group_scores[a].similarity > group_scores[b].similarity
            \/ /\ group_scores[a].similarity = group_scores[b].similarity
               /\ a > b
        Rank(a) == 1 + Cardinality({b \in 1..n : Before(b, a)})
    IN  [r \in 1..n |-> group_scores[CHOOSE a \in 1..n : Rank(a) = r]]

\* list.sort(key=similarity, reverse=True): stable, descending
SortBySimilarityDesc(group_scores) ==
    LET n == Len(group_scores)
        Before(a, b) ==
            \/ group_scores[a].similarity > group_scores[b].similarity
            \/ /\ group_scores[a].similarity = group_scores[b].similarity
               /\ a < b
        Rank(a) == 1 + Cardinality({b \in 1..n : Before(b, a)})
    IN  [r \in 1..n |-> group_scores[CHOOSE a \in 1..n : Rank(a) = r]]

find_best_groups(o, top_k) ==
    The({SubSeq(sorted, 1, Min2(top_k, Len(sorted))) :
            sorted \in {The({SortBySimilarityDesc(group_scores) :
                group_scores \in
                    {[k \in 1..Len(Groups) |->
                        [grupo |-> Groups[k],
                         similarity |-> clip_similarity(o.cent[Groups[k]])]]}})}})

\* Boost of a phrase of 3 words or more
LongPhraseBoost == 15

\* Boost of a phrase of 2 words
MediumPhraseBoost == 8

\* Bonus of the group ranked first by find_best_groups
TopGroupBonus == 5

\* A boost that gives every phrase of two or more words the same bonus
PhraseBoostFlat(frase_len) ==
    IF frase_len >= 2 THEN LongPhraseBoost ELSE 0

PhraseBoost(frase_len) ==
    IF frase_len >= 3 THEN LongPhraseBoost
    ELSE IF frase_len = 2 THEN MediumPhraseBoost
    ELSE 0

BoostedSimilarities(similarities, grupo) ==
    [idx \in 1..Len(similarities) |->
        similarities[idx] + PhraseBoost(PhraseWordCount[<<grupo, idx>>])]

\* The score of a group after the bonus of the first group (lines 351-354)
WithTopGroupBonus(max_similarity, is_top) ==
    IF is_top THEN clip_similarity(max_similarity + TopGroupBonus)
    ELSE max_similarity

\* One candidate group of the loop: its best phrase, the score that is
\* compared with the threshold and the threshold (lines 322-354)
Candidate(o, grupo, is_top) ==
    The({The({[grupo |-> grupo,
               max_idx |-> max_idx,
               boosted |-> boosted_similarities[max_idx],
               clipped |-> clip_similarity(boosted_similarities[max_idx]),
               score |-> WithTopGroupBonus(
                            clip_similarity(boosted_similarities[max_idx]), is_top),
               threshold |-> GROUP_THRESHOLDS(grupo)] :
                max_idx \in {ArgMax(boosted_similarities)}}) :
            boosted_similarities \in
                {The({BoostedSimilarities(similarities, grupo) :
                        similarities \in {GroupSimilarities(o, grupo)}})}})

\* The comparison of line 358 with >= in place of >
RerankStepLastWins(best, cand) ==
    IF cand.score >= best.best_similarity /\ cand.score >= cand.threshold
    THEN [best_group |-> Some(cand.grupo),
          best_phrase |-> Some(cand.max_idx),
          best_similarity |-> cand.score,
          compared |-> Append(best.compared, cand)]
    ELSE [best EXCEPT !.compared = Append(best.compared, cand)]

\* The comparison of line 358 and the assignments it guards
RerankStep(best, cand) ==
    IF cand.score > best.best_similarity /\ cand.score >= cand.threshold
    THEN [best_group |-> Some(cand.grupo),
          best_phrase |-> Some(cand.max_idx),
          best_similarity |-> cand.score,
          compared |-> Append(best.compared, cand)]
    ELSE [best EXCEPT !.compared = Append(best.compared, cand)]

\* The loop over the candidate groups (lines 314-361)
RerankLoop(o, top_groups) ==
    LET f[k \in 0..Len(top_groups)] ==
            IF k = 0
            THEN [best_group |-> None, best_phrase |-> None,
                  best_similarity |-> -100, compared |-> <<>>]
            ELSE The({RerankStep(best, cand) :
                        best \in {f[k - 1]},
                        cand \in {The({Candidate(o, grupo,
                                        grupo = top_groups[1].grupo) :
                                    grupo \in {top_groups[k].grupo}})}})
    IN  f[Len(top_groups)]

\* The best phrase of one group with the boost of its phrases
BestOfGroupBoosted(o, grupo, compared, fallback) ==
    The({The({[grupo |-> grupo,
               phrase |-> <<grupo, max_idx>>,
               frase |-> grupos_frases[grupo][max_idx],
               similarity |-> clip_similarity(similarities[max_idx]),
               compared |-> compared,
               fallback |-> fallback] :
                max_idx \in {ArgMax(similarities)}}) :
            similarities \in {The({BoostedSimilarities(raw, grupo) :
                                    raw \in {GroupSimilarities(o, grupo)}})}})

\* The best phrase of one group without boost (lines 364-373 and 544-562)
BestOfGroup(o, grupo, compared, fallback) ==
    The({The({[grupo |-> grupo,
               phrase |-> <<grupo, max_idx>>,
               frase |-> grupos_frases[grupo][max_idx],
               similarity |-> clip_similarity(similarities[max_idx]),
               compared |-> compared,
               fallback |-> fallback] :
                max_idx \in {ArgMax(similarities)}}) :
            similarities \in {GroupSimilarities(o, grupo)}})

RerankResult(o, top_groups, best) ==
    IF best.best_group = None
    THEN BestOfGroup(o, top_groups[1].grupo, best.compared, TRUE)
    ELSE [grupo |-> best.best_group[1],
          phrase |-> <<best.best_group[1], best.best_phrase[1]>>,
          frase |-> grupos_frases[best.best_group[1]][best.best_phrase[1]],
          similarity |-> best.best_similarity,
          compared |-> best.compared,
          fallback |-> FALSE]

find_most_similar_phrase_reranked(o) ==
    The({The({RerankResult(o, top_groups, best) :
                best \in {RerankLoop(o, top_groups)}}) :
            top_groups \in {find_best_groups(o, 3)}})

\* The values of lines 537-539, returned when no group was searched:
\* (None, None, -1.0)
NothingFound ==
    [grupo |-> None, phrase |-> None, frase |-> None, similarity |-> -100,
     compared |-> <<>>, fallback |-> FALSE]

\* One iteration of the loop of lines 544-562: a group without embeddings is
\* skipped, and the best phrase of the group replaces the best so far only
\* when its clipped cosine is strictly higher
BasicSearchStep(o, best, grupo) ==
    IF grupo \notin Range(Groups) THEN best
    ELSE The({IF cand.similarity > best.similarity THEN cand ELSE best :
                cand \in {BestOfGroup(o, grupo, <<>>, FALSE)}})

\* find_most_similar_phrase on an initialized matcher (the guard of line 517
\* passes).  group is the name of a group, or an empty value (None or ""),
\* for which line 542 searches every group in the stored order.
find_most_similar_phrase(o, group) ==
    LET groups_to_search == IF Len(group) = 0 THEN Groups ELSE <<group>>
        f[k \in 0..Len(groups_to_search)] ==
            IF k = 0 THEN NothingFound
            ELSE The({BasicSearchStep(o, best, groups_to_search[k]) :
                        best \in {f[k - 1]}})
    IN f[Len(groups_to_search)]

\* Lines 388-393
Stage3(o, reranking) ==
    IF reranking
    THEN find_most_similar_phrase_reranked(o)
    ELSE The({find_most_similar_phrase(o, best[1].grupo) :
                best \in {find_best_groups(o, 1)}})

(***************************************************************************)
(* app/matcher_improved.py: search_similar_phrase                          *)
(***************************************************************************)

\* The band of similarities of VALIDACION 2
NameBandLow == 50

NameBandHigh == 85

\* The similarity from which a match counts as exact in VALIDACION 3
ExactMatchFloor == 98

\* The penalty for each character of length difference
PenaltyPerChar == 5

\* Lines 401-440
NameValidations(facts, similarity, should_spell_out) ==
    IF facts.single_short_word
    THEN IF facts.is_common_name THEN TRUE
         ELSE IF ~facts.is_known_word
              THEN IF NameBandLow <= similarity /\ similarity < NameBandHigh
                   THEN TRUE
                   ELSE should_spell_out
              ELSE should_spell_out
    ELSE should_spell_out

\* Lines 442-448
CapitalizationValidation(facts, similarity, should_spell_out) ==
    IF facts.title_case
    THEN IF similarity < ExactMatchFloor THEN TRUE ELSE should_spell_out
    ELSE should_spell_out

\* A penalty that already applies to a difference of one character
PenaltyFromOne(length_diff) == length_diff >= 1

\* The condition of line 462
PenaltyApplies(length_diff) == length_diff > 1

\* Lines 465-467
LengthPenalty(similarity, length_diff) ==
    clip_similarity(similarity - PenaltyPerChar * length_diff)

\* A final flag that keeps what the validations decided
KeepStage4Flag(penalized, similarity, spell_out_threshold, flag_stage4) ==
    flag_stage4

\* A final flag that is always the comparison with the spelling threshold
FinalFlagAlwaysRecomputed(penalized, similarity, spell_out_threshold, flag_stage4) ==
    similarity < spell_out_threshold

\* The flag tested at line 474: recomputed at line 471 when the penalty was
\* applied, otherwise the one the validations left
FinalFlag(penalized, similarity, spell_out_threshold, flag_stage4) ==
    IF penalized THEN similarity < spell_out_threshold ELSE flag_stage4

\* Lines 395-471: the decision, as a record of every intermediate value
Decide(facts, found) ==
    LET spell_out_threshold == SPELL_OUT_THRESHOLDS(found.grupo)
        flag_threshold == found.similarity < spell_out_threshold
        flag_names == NameValidations(facts, found.similarity, flag_threshold)
        flag_stage4 == CapitalizationValidation(facts, found.similarity, flag_names)
        length_diff == facts.length_diff[found.phrase]
        penalized == PenaltyApplies(length_diff)
        similarity == IF penalized
                      THEN LengthPenalty(found.similarity, length_diff)
                      ELSE found.similarity
    IN  [grupo |-> found.grupo,
         phrase |-> found.phrase,
         frase |-> found.frase,
         stage3_similarity |-> found.similarity,
         compared |-> found.compared,
         fallback |-> found.fallback,
         spell_out_threshold |-> spell_out_threshold,
         flag_threshold |-> flag_threshold,
         flag_names |-> flag_names,
         flag_stage4 |-> flag_stage4,
         length_diff |-> length_diff,
         penalized |-> penalized,
         similarity |-> similarity,
         should_spell_out |-> FinalFlag(penalized, similarity,
                                        spell_out_threshold, flag_stage4)]

\* Lines 473-504
Respond(q, facts, d) ==
    IF d.should_spell_out
    THEN [query |-> q,
          grupo |-> None,
          frase_similar |-> JoinSpaces(facts.deletreo_list),
          similitud |-> d.similarity,
          deletreo_activado |-> TRUE,
          deletreo |-> Some(facts.deletreo_list),
          total_caracteres |-> Some(Len(facts.deletreo_list))]
    ELSE [query |-> q,
          grupo |-> Some(d.grupo),
          frase_similar |-> d.frase,
          similitud |-> d.similarity,
          deletreo_activado |-> FALSE,
          deletreo |-> None,
          total_caracteres |-> None]

\* search_similar_phrase on query q when the encoder answers o; the value is
\* the returned dictionary together with the intermediate values
search_similar_phrase(q, o, reranking) ==
    The({The({[trace |-> d, result |-> Respond(q, facts, d)] :
                d \in {The({Decide(facts, found) :
                            found \in {Stage3(o, reranking)}})}}) :
            facts \in {QueryFacts[q]}})

(***************************************************************************)
(* The state machine: a matcher built with or without re-ranking answers   *)
(* one query.                                                              *)
(***************************************************************************)

NoValue == <<>>

\* No function of app/preprocess.py is being followed
TextIdle == in_text = NoValue /\ text_out = NoValue

\* The API is not being followed
ServiceIdle ==
    /\ env = NoValue
    /\ cache_file = NoValue
    /\ matcher = NoValue
    /\ app = NoValue
    /\ req = NoValue
    /\ answers = NoValue

Init ==
    /\ use_reranking \in BOOLEAN
    /\ pc = "ready"
    /\ query \in Queries
    /\ oracle = NoValue
    /\ trace = NoValue
    /\ result = NoValue
    /\ TextIdle
    /\ ServiceIdle

\* One call of search_similar_phrase(query) during which the encoder answers o
Search(o) ==
    /\ oracle' = o
    /\ \E r \in {search_similar_phrase(query, o, use_reranking)} :
        /\ trace' = r.trace
        /\ result' = r.result
    /\ pc' = "done"
    /\ UNCHANGED <<use_reranking, query, in_text, text_out, service_vars>>

SearchAny ==
    /\ pc = "ready"
    /\ \E o \in OracleAnswers(query) : Search(o)

Next == SearchAny

Spec == Init /\ [][Next]_vars

(***************************************************************************)
(* Properties of search_similar_phrase.                                    *)
(***************************************************************************)

Done == pc = "done"

Spelled == result.deletreo_activado

\* C1: whatever the query, the cosines and the path taken, the returned
\* similarity lies in [0, 1], and so does every score that is compared with a
\* threshold: the score of every candidate group, the similarity of stage 3
\* and the similarity after the length penalty.
SimilarityInRange ==
    Done =>
        /\ result.similitud \in 0..100
        /\ trace.stage3_similarity \in 0..100
        /\ trace.similarity \in 0..100
        /\ \A k \in 1..Len(trace.compared) :
            /\ trace.compared[k].clipped \in 0..100
            /\ trace.compared[k].score \in 0..100

\* A search in which one group had a boosted score above 1, another one a
\* negative score, and the length penalty was applied
BoostAboveOneAndPenalty ==
    /\ Done
    /\ \E k \in 1..Len(trace.compared) : trace.compared[k].boosted > 100
    /\ \E k \in 1..Len(trace.compared) : trace.compared[k].boosted < 0
    /\ trace.penalized

\* C2: a result that is not a spell-out has a similarity at or above the
\* spelling threshold of the returned group; a final similarity below the
\* spelling threshold of the group always gives a spell-out.
MatchOnlyAboveSpellingThreshold ==
    /\ Done /\ ~Spelled =>
        result.similitud >= SPELL_OUT_THRESHOLDS(result.grupo[1])
    /\ Done /\ result.similitud < SPELL_OUT_THRESHOLDS(trace.grupo) => Spelled

\* A match returned after the length penalty lowered the similarity
MatchAfterPenalty ==
    /\ Done
    /\ ~Spelled
    /\ trace.penalized
    /\ result.similitud < trace.stage3_similarity

\* The spelling of the leet-normalized raw query, spaces included
SpelledRawQuery ==
    [q \in Queries |->
        The({spell_out_text(normalized_query, TRUE) :
                normalized_query \in {normalize_leet_speak(q)}})]

\* C3: a result has one of two shapes.  A spell-out has no group, the
\* non-empty token list of the leet-normalized raw query spelled with spaces,
\* its length as total_caracteres and the tokens joined by spaces as
\* frase_similar.  A match has a group of the catalog, a phrase of that group
\* in its catalog text, and neither token list nor count.
ResultShapes ==
    Done =>
        IF result.deletreo_activado
        THEN /\ result.grupo = None
             /\ result.deletreo = Some(SpelledRawQuery[query])
             /\ Len(result.deletreo[1]) > 0
             /\ result.total_caracteres = Some(Len(result.deletreo[1]))
             /\ result.frase_similar = JoinSpaces(result.deletreo[1])
        ELSE /\ result.grupo # None
             /\ result.grupo[1] \in Range(Groups)
             /\ \E idx \in 1..Len(grupos_frases[result.grupo[1]]) :
                    result.frase_similar = grupos_frases[result.grupo[1]][idx]
             /\ result.deletreo = None
             /\ result.total_caracteres = None

\* A spell-out of a query whose canonical form differs from its leet-normalized
\* text
SpellOutOfLeetQuery ==
    /\ Done
    /\ Spelled
    /\ query = <<"M","4","r","i","@">>

\* C4: a query whose normalized form is in the table of known names is always
\* spelled out, with no group.
KnownNameIsSpelledOut ==
    Done /\ QueryNormalized(query) \in COMMON_SPANISH_NAMES =>
        Spelled /\ result.grupo = None

\* C5: a catalog phrase of group G given verbatim as the query is matched, in
\* group G, with a similarity of at least 0.95.
VerbatimPhraseIsMatched ==
    Done =>
        \A p \in PhraseIds :
            query = grupos_frases[p[1]][p[2]] =>
                /\ ~Spelled
                /\ result.grupo = Some(p[1])
                /\ result.similitud >= 95

\* Two texts of the same length that differ in the case of some letters
DiffersOnlyInCase(a, b) ==
    /\ a # b
    /\ Len(a) = Len(b)
    /\ \A i \in 1..Len(a) : LowerChar(a[i]) = LowerChar(b[i])

SameLetterUpToDiacritic(x, y) ==
    \/ x = y
    \/ \E k \in 1..Len(AccentedLower) :
        \/ {x, y} = {AccentedLower[k], AccentBaseLower[k]}
        \/ {x, y} = {AccentedUpper[k], AccentBaseUpper[k]}

\* Two texts of the same length that differ in the diacritics of some letters
DiffersOnlyInDiacritics(a, b) ==
    /\ a # b
    /\ Len(a) = Len(b)
    /\ \A i \in 1..Len(a) : SameLetterUpToDiacritic(a[i], b[i])

PunctuationMarks == {"!", "?", ".", ",", ";", ":"}

\* b is a followed by a run of one punctuation mark
AppendsPunctuationRun(a, b) ==
    /\ Len(b) > Len(a)
    /\ SubSeq(b, 1, Len(a)) = a
    /\ \E m \in PunctuationMarks : \A i \in (Len(a) + 1)..Len(b) : b[i] = m

CaseVariants == [q \in Queries |-> {v \in Queries : DiffersOnlyInCase(q, v)}]

AccentVariants == [q \in Queries |-> {v \in Queries : DiffersOnlyInDiacritics(q, v)}]

PunctuationVariants == [q \in Queries |-> {v \in Queries : AppendsPunctuationRun(q, v)}]

\* The answers the encoder can give for query v when it answered o for query
\* q: the encoder is a function of the canonical text it is given
EncoderAnswersGiven(v, q, o) ==
    IF QueryFacts[v].canonical = QueryFacts[q].canonical
    THEN {o}
    ELSE OracleAnswers(v)

SameClassification(r1, r2) ==
    /\ r1.grupo = r2.grupo
    /\ r1.deletreo_activado = r2.deletreo_activado

\* The condition under which VALIDACION 3 sets the flag
CapitalizationFires(q, similarity) ==
    IsTitleCase(q) /\ similarity < ExactMatchFloor

\* C6: two queries that differ only in letter case get the same group and
\* the same spell-out flag.
CaseInvariance ==
    Done =>
        \A v \in CaseVariants[query] :
            \A o \in EncoderAnswersGiven(v, query, oracle) :
                SameClassification(result,
                    search_similar_phrase(v, o, use_reranking).result)

\* C6 as the code has it: two queries that differ only in letter case get the
\* same group and the same spell-out flag unless one of them is in Title Case
\* and its stage-3 similarity is below 0.98, the case of the capitalization
\* validation.
CaseInvarianceUnlessCapitalized ==
    Done =>
        \A v \in CaseVariants[query] :
            \A o \in EncoderAnswersGiven(v, query, oracle) :
                \A r \in {search_similar_phrase(v, o, use_reranking)} :
                    (/\ ~CapitalizationFires(query, trace.stage3_similarity)
                     /\ ~CapitalizationFires(v, r.trace.stage3_similarity))
                        => SameClassification(result, r.result)

\* A Title-Case query with case variants, matched with a similarity of 0.98 or
\* more
TitleCaseExactMatch ==
    /\ Done
    /\ CaseVariants[query] # {}
    /\ IsTitleCase(query)
    /\ trace.stage3_similarity >= ExactMatchFloor
    /\ ~Spelled

\* C7: a query followed by a run of one punctuation mark gets the same group
\* and the same spell-out flag as the query without the run.
PunctuationInvariance ==
    Done =>
        \A v \in PunctuationVariants[query] :
            \A o \in EncoderAnswersGiven(v, query, oracle) :
                SameClassification(result,
                    search_similar_phrase(v, o, use_reranking).result)

\* C8: two queries that differ only in diacritics get the same group whenever
\* neither result is a spell-out.
AccentInvariance ==
    Done /\ ~Spelled =>
        \A v \in AccentVariants[query] :
            \A o \in EncoderAnswersGiven(v, query, oracle) :
                \A r \in {search_similar_phrase(v, o, use_reranking).result} :
                    (~Spelled /\ ~r.deletreo_activado) => result.grupo = r.grupo

\* An accented query and its unaccented variant, both matched
AccentedAndPlainBothMatched ==
    /\ Done
    /\ query = <<"m","e'","d","i","c","o">>
    /\ ~Spelled
    /\ \E v \in AccentVariants[query] :
        ~search_similar_phrase(v, oracle, use_reranking).result.deletreo_activado

\* The whitespace-delimited words of the raw queries and of the phrases
RawQueryWords == [q \in Queries |-> Split(q)]

CatalogPhraseWords == [p \in PhraseIds |-> Split(grupos_frases[p[1]][p[2]])]

\* C9: when the raw query and the matched phrase are single words whose
\* lengths differ by d > 1, the returned similarity is max(0, s - 0.05 d) for
\* the similarity s of stage 3; otherwise it is s.
LengthPenaltyFormula ==
    Done =>
        \A found \in {Stage3(oracle, use_reranking)} :
            \A qw \in {RawQueryWords[query]}, fw \in {CatalogPhraseWords[found.phrase]} :
                IF /\ Len(qw) = 1
                   /\ Len(fw) = 1
                   /\ Abs(Len(qw[1]) - Len(fw[1])) > 1
                THEN result.similitud =
                        Max2(0, found.similarity - 5 * Abs(Len(qw[1]) - Len(fw[1])))
                ELSE result.similitud = found.similarity

\* A penalty that leaves a positive similarity
PenaltyApplied ==
    /\ Done
    /\ trace.penalized
    /\ trace.length_diff > 2
    /\ result.similitud > 0
    /\ result.similitud < trace.stage3_similarity

\* The tokens of the letters
LetterTokens ==
    Range(UpperLetters) \cup Range(AccentedUpper) \cup {"LL", "RR", "CH"}

OnlyLettersAndLeet(q) == \A i \in 1..Len(q) : IsAlpha(q[i]) \/ q[i] \in LeetKeys

\* C10: the spelling of a query made of letters and characters of the leet
\* table has only letter tokens, each table character being spelled as its
\* letter; "M4ri@" is spelled M, A, R, I, A.
LeetSpelledAsLetters ==
    Done /\ Spelled /\ OnlyLettersAndLeet(query) =>
        /\ \A i \in 1..Len(result.deletreo[1]) : result.deletreo[1][i] \in LetterTokens
        /\ query = <<"M","4","r","i","@">> =>
            result.deletreo[1] = <<"M", "A", "R", "I", "A">>

\* A spell-out of the query that holds the characters of the leet table from
\* 3 to 6
SpellOutOfLeetTable ==
    /\ Done
    /\ Spelled
    /\ query = <<"x","3","1","!","0","5","$","7","+","8","9","6">>
    /\ result.deletreo[1] = <<"X","E","I","I","O","S","S","T","T","B","G","G">>

(***************************************************************************)
(* The functions of app/preprocess.py on their own: a text is given to     *)
(* spell_out_text or to normalize_text.                                    *)
(***************************************************************************)

\* The longest text built from the alphabet
MaxTextLen == 3

TextAlphabet == {"l", "L", "r", "c", "H", "a", " ", "\t", "!", "_", "4", "e'"}

\* The texts of lengths 0 to MaxTextLen
AlphabetTexts == UNION {[1..n -> TextAlphabet] : n \in 0..MaxTextLen}

TLlama == <<"l","l","a","m","a">>

TCarroChico == <<"c","a","r","r","o"," ","c","h","i","c","o">>

Texts == AlphabetTexts \cup {TLlama, TCarroChico}

\* No search is being followed
SearchIdle ==
    /\ use_reranking = TRUE
    /\ query = NoValue
    /\ oracle = NoValue
    /\ trace = NoValue
    /\ result = NoValue

TextInit ==
    /\ pc = "ready"
    /\ in_text \in Texts
    /\ text_out = NoValue
    /\ SearchIdle
    /\ ServiceIdle

\* One call spell_out_text(text, include_spaces)
SpellOutText ==
    /\ pc = "ready"
    /\ \E include_spaces \in BOOLEAN :
        text_out' = [include_spaces |-> include_spaces,
                     tokens |-> spell_out_text(in_text, include_spaces)]
    /\ pc' = "spelled"
    /\ UNCHANGED <<in_text, use_reranking, query, oracle, trace, result, service_vars>>

\* One call normalize_text(text)
NormalizeText ==
    /\ pc = "ready"
    /\ text_out' = [normalized |-> normalize_text(in_text)]
    /\ pc' = "normalized"
    /\ UNCHANGED <<in_text, use_reranking, query, oracle, trace, result, service_vars>>

\* The default threshold and the one of the unit tests
TestThreshold == 70

\* The reference phrases and the threshold given to light_spelling_correction:
\* two phrases with one normalized text, phrases of different scores, a phrase
\* that scores between the two thresholds, a list with the empty phrase,
\* phrases that normalization changes, no phrase
CorrectionInputs ==
    { << << <<"l","a">>, <<"L","a">> >>, SpellingCorrectionThreshold >>,
      << << <<"c","a">>, <<"l","a">>, <<"l","a","c">> >>, SpellingCorrectionThreshold >>,
      << << <<"c","a">>, <<"l","a","c","a","r">> >>, TestThreshold >>,
      << << <<>>, <<"a","l">> >>, SpellingCorrectionThreshold >>,
      << << <<"L","a","!">>, <<"e'","l">> >>, SpellingCorrectionThreshold >>,
      << <<>>, SpellingCorrectionThreshold >> }

\* One call light_spelling_correction(text, reference_phrases, threshold)
CorrectSpelling ==
    /\ pc = "ready"
    /\ \E input \in CorrectionInputs :
        text_out' = [reference_phrases |-> input[1],
                     threshold |-> input[2],
                     corrected |-> light_spelling_correction(
                                    in_text, input[1], input[2])]
    /\ pc' = "corrected"
    /\ UNCHANGED <<in_text, use_reranking, query, oracle, trace, result, service_vars>>

TextNext == SpellOutText \/ NormalizeText \/ CorrectSpelling

SpecText == TextInit /\ [][TextNext]_vars

(***************************************************************************)
(* Properties of spell_out_text and normalize_text.                        *)
(***************************************************************************)

\* The token of one character that is not part of a digraph
OneCharTokens(c, include_spaces) ==
    IF c = " " THEN (IF include_spaces THEN <<"espacio">> ELSE <<>>)
    ELSE IF IsAlpha(c) \/ IsDigit(c) THEN <<c>>
    ELSE <<special_chars(c)>>

\* The tokens of the upper-cased text u from position i on, read left to
\* right: a digraph LL, RR or CH is one token and takes two characters, any
\* other character takes one
RECURSIVE TokensFrom(_, _, _)
TokensFrom(u, i, include_spaces) ==
    IF i > Len(u) THEN <<>>
    ELSE IF i < Len(u) /\ <<u[i], u[i + 1]>> \in {<<"L","L">>, <<"R","R">>, <<"C","H">>}
    THEN <<u[i] \o u[i + 1]>> \o TokensFrom(u, i + 2, include_spaces)
    ELSE OneCharTokens(u[i], include_spaces) \o TokensFrom(u, i + 1, include_spaces)

\* The number of characters a token list accounts for when spaces are spelled
RECURSIVE CharsConsumed(_)
CharsConsumed(tokens) ==
    IF tokens = <<>> THEN 0
    ELSE (IF Head(tokens) \in {"LL", "RR", "CH"} THEN 2 ELSE 1)
            + CharsConsumed(Tail(tokens))

\* C11: spell_out_text reads the upper-cased text left to right, a digraph
\* LL, RR or CH giving one token for two characters and any other character
\* one token (none for a space when spaces are excluded); every character is
\* consumed exactly once, and "llama" gives LL, A, M, A.
DigraphsAreSingleTokens ==
    pc = "spelled" =>
        /\ text_out.tokens = TokensFrom(Upper(in_text), 1, text_out.include_spaces)
        /\ text_out.include_spaces => CharsConsumed(text_out.tokens) = Len(in_text)
        /\ in_text = TLlama => text_out.tokens = <<"LL", "A", "M", "A">>

\* The spelling of a text with the digraphs RR and CH
SpelledCarroChico ==
    /\ pc = "spelled"
    /\ in_text = TCarroChico
    /\ text_out.include_spaces
    /\ text_out.tokens =
        <<"C", "A", "RR", "O", "espacio", "CH", "I", "C", "O">>

IsNotSpaceToken(token) == token # "espacio"

\* The number of positions of a sequence that hold x
Occurrences(seq, x) == Cardinality({i \in 1..Len(seq) : seq[i] = x})

\* C12: without spaces spell_out_text returns the token list it returns with
\* spaces, less the "espacio" tokens; with spaces there is one "espacio" token
\* for every space of the text; the empty text gives the empty list.
SpacesAreOmittedWithoutPlaceholder ==
    pc = "spelled" =>
        /\ ~text_out.include_spaces =>
            text_out.tokens =
                SelectSeq(spell_out_text(in_text, TRUE), IsNotSpaceToken)
        /\ text_out.include_spaces =>
            Occurrences(text_out.tokens, "espacio") = Occurrences(in_text, " ")
        /\ in_text = <<>> => text_out.tokens = <<>>

\* The spelling without spaces of a text that has a space
SpelledWithoutSpaces ==
    /\ pc = "spelled"
    /\ in_text = TCarroChico
    /\ ~text_out.include_spaces
    /\ text_out.tokens = <<"C", "A", "RR", "O", "CH", "I", "C", "O">>

\* C20: the text normalize_text returns has only lower-case letters, digits
\* and single spaces between words; a text without letters or digits gives the
\* empty text.
NormalizedIsLettersDigitsSpaces ==
    pc = "normalized" =>
        \A out \in {text_out.normalized} :
            /\ \A i \in 1..Len(out) :
                IsLowerChar(out[i]) \/ IsDigit(out[i]) \/ out[i] = " "
            /\ \A i \in 1..Len(out) :
                out[i] = " " => /\ 1 < i /\ i < Len(out)
                                /\ out[i + 1] # " "
            /\ (\A i \in 1..Len(in_text) : in_text[i] = " ") => out = <<>>

(***************************************************************************)
(* app/main.py and the life of the matcher: startup_event builds and       *)
(* initializes the global matcher, POST /buscar requests are served by     *)
(* workers that share it.  An embedding matrix is known by its number of   *)
(* rows, a dictionary keyed by group by a function that gives 0 to a group *)
(* without an entry.                                                       *)
(***************************************************************************)

\* The workers that serve requests
Threads == {1, 2}

\* Field(min_length=1, max_length=500) of QueryRequest.texto
MinTextoLength == 1

MaxTextoLength == 500

\* A texto one character longer than the request model allows
LongTexto == [i \in 1..(MaxTextoLength + 1) |-> "a"]

\* The texto of the requests: empty, blank (spaces, a tab, a vertical tab),
\* too long, a catalog phrase, a name
ServiceTexts ==
    { <<>>, <<" ", " ">>, <<"\t">>, <<"">>, LongTexto,
      <<"H","o","l","a">>, <<"J","u","a","n">> }

\* The texts that pass the validation of the request and the blank check
SearchTexts ==
    {texto \in ServiceTexts :
        /\ MinTextoLength <= Len(texto)
        /\ Len(texto) <= MaxTextoLength
        /\ Strip(texto) # <<>>}

\* An empty dictionary keyed by group
NoRows == [g \in Range(Groups) |-> 0]

\* get_all_phrases(): the number of phrases of every group of the dataset
DatasetRows == [g \in Range(Groups) |-> Len(grupos_frases[g])]

\* Embeddings computed when group A had its first phrase only
StaleRows == [DatasetRows EXCEPT !["A"] = 1]

\* No file at cache_path
CacheMissing == [exists |-> FALSE, loadable |-> FALSE, rows |-> NoRows]

\* A file np.load cannot read
CacheCorrupt == [exists |-> TRUE, loadable |-> FALSE, rows |-> NoRows]

\* A file np.savez_compressed wrote from a dictionary of embeddings
CacheOf(rows) == [exists |-> TRUE, loadable |-> TRUE, rows |-> rows]

CacheFiles ==
    {CacheMissing, CacheCorrupt, CacheOf(DatasetRows), CacheOf(StaleRows)}

\* ImprovedPhraseMatcher.__init__
NewMatcher ==
    [model |-> None,
     grupos_frases |-> NoRows,
     grupos_embeddings |-> NoRows,
     grupos_centroids |-> {}]

\* _load_model by loader instance: the model is built only when the field is
\* None, and building it raises when the model cannot be obtained
load_model(m, e, instance) ==
    IF m.model # None THEN [raised |-> FALSE, m |-> m]
    ELSE IF e.model_available
         THEN [raised |-> FALSE, m |-> [m EXCEPT !.model = Some(instance)]]
         ELSE [raised |-> TRUE, m |-> m]

\* _save_embeddings_cache: the files that can be at cache_path afterwards; a
\* write that fails is only logged and leaves the old file or a partial one
save_embeddings_cache(cache, e, rows) ==
    IF e.cache_writable THEN {CacheOf(rows)} ELSE {cache, CacheCorrupt}

\* _compute_embeddings: the outcomes of encoding every phrase of the dataset
compute_embeddings(m, cache, e) ==
    LET l == load_model(m, e, 0)
    IN  IF l.raised
        THEN {[raised |-> TRUE, m |-> m, embeddings |-> NoRows,
               cache_file |-> cache]}
        ELSE {[raised |-> FALSE, m |-> l.m, embeddings |-> DatasetRows,
               cache_file |-> c] :
                c \in save_embeddings_cache(cache, e, DatasetRows)}

\* _load_or_compute_embeddings
load_or_compute_embeddings(m, cache, e) ==
    IF cache.exists /\ cache.loadable
    THEN {[raised |-> FALSE, m |-> m, embeddings |-> cache.rows,
           cache_file |-> cache]}
    ELSE compute_embeddings(m, cache, e)

\* _compute_centroids: the groups that get a centroid
compute_centroids(embeddings) == {g \in DOMAIN embeddings : embeddings[g] > 0}

\* initialize() on matcher m: the outcomes, each with the matcher and the
\* cache file it leaves
initialize(m, cache, e) ==
    {IF r.raised
     THEN [raised |-> TRUE,
           matcher |-> [r.m EXCEPT !.grupos_frases = DatasetRows],
           cache_file |-> r.cache_file]
     ELSE [raised |-> FALSE,
           matcher |-> [r.m EXCEPT !.grupos_frases = DatasetRows,
                                   !.grupos_embeddings = r.embeddings,
                                   !.grupos_centroids =
                                        compute_centroids(r.embeddings)],
           cache_file |-> r.cache_file] :
        r \in load_or_compute_embeddings(m, cache, e)}

\* The cosine of a phrase that has no row in the embedding matrix: it takes
\* no part in the boost loop nor in argmax
MissingRow == -1000

\* An encoder whose instances differ
ModelEncodeByInstance(instance, q) ==
    [cent |-> [g \in Range(Groups) |-> 50],
     phr |-> [p \in PhraseIds |->
                IF p \in ExactPhrases(QueryFacts[q].canonical) THEN 100
                ELSE IF instance = 1 THEN 80 ELSE 55]]

\* model.encode by the model instance with the cosines that follow: every
\* instance of the model encodes a text in the same way
ModelEncode(instance, q) ==
    [cent |-> [g \in Range(Groups) |-> 50],
     phr |-> [p \in PhraseIds |->
                IF p \in ExactPhrases(QueryFacts[q].canonical) THEN 100 ELSE 55]]

\* The cosines of the query with the rows the matcher holds
RowsOracle(o, embeddings) ==
    [o EXCEPT !.phr = [p \in PhraseIds |->
                        IF p[2] <= embeddings[p[1]] THEN o.phr[p]
                        ELSE MissingRow]]

\* matcher.search_similar_phrase(texto) by model instance and embeddings
SearchBodies ==
    [x \in (0..2) \X {DatasetRows, StaleRows} \X SearchTexts |->
        The({search_similar_phrase(x[3], o, TRUE).result :
                o \in {The({RowsOracle(enc, x[2]) :
                              enc \in {ModelEncode(x[1], x[3])}})}})]

IdleRequest == [pc |-> "idle", texto |-> <<>>, status |-> 0, body |-> None]

\* A response with an error status
Rejected(texto, status) ==
    [pc |-> "done", texto |-> texto, status |-> status, body |-> None]

ServiceInit ==
    /\ pc = "service"
    /\ SearchIdle
    /\ TextIdle
    /\ env \in [model_available : BOOLEAN, cache_writable : BOOLEAN]
    /\ cache_file \in CacheFiles
    /\ matcher = None
    /\ app = "created"
    /\ req = [t \in Threads |-> IdleRequest]
    /\ answers = [q \in SearchTexts |-> {}]

search_vars == <<use_reranking, pc, query, oracle, trace, result, in_text, text_out>>

\* startup_event: the matcher is assigned before initialize() runs on it,
\* and an exception of initialize() is raised again
startup_event ==
    /\ app = "created"
    /\ matcher = None
    /\ \E r \in initialize(NewMatcher, cache_file, env) :
        /\ matcher' = Some(r.matcher)
        /\ cache_file' = r.cache_file
        /\ app' = IF r.raised THEN "failed" ELSE "up"
    /\ UNCHANGED <<search_vars, env, req, answers>>

\* POST /buscar with body {"texto": texto} up to the test of self.model in
\* _load_model: the validation of QueryRequest, the two checks of
\* buscar_frase_similar and the guard of find_best_groups
AcceptRequest(t, texto) ==
    IF Len(texto) < MinTextoLength \/ Len(texto) > MaxTextoLength
    THEN Rejected(texto, 422)
    ELSE IF matcher = None THEN Rejected(texto, 503)
    ELSE IF Strip(texto) = <<>> THEN Rejected(texto, 400)
    ELSE IF matcher[1].grupos_centroids = {} THEN Rejected(texto, 500)
    ELSE [pc |-> IF matcher[1].model = None THEN "loading" ELSE "encoding",
          texto |-> texto, status |-> 0, body |-> None]

buscar_frase_similar(t) ==
    /\ req[t].pc = "idle"
    /\ \E texto \in ServiceTexts :
        req' = [req EXCEPT ![t] = AcceptRequest(t, texto)]
    /\ UNCHANGED <<search_vars, env, cache_file, matcher, app, answers>>

\* self.model = SentenceTransformer(...) of _load_model inside a search
LoadModel(t) ==
    /\ req[t].pc = "loading"
    /\ IF env.model_available
       THEN /\ matcher' = Some([matcher[1] EXCEPT !.model = Some(t)])
            /\ req' = [req EXCEPT ![t].pc = "encoding"]
       ELSE /\ req' = [req EXCEPT ![t] = Rejected(req[t].texto, 500)]
            /\ UNCHANGED matcher
    /\ UNCHANGED <<search_vars, env, cache_file, app, answers>>

\* The rest of search_similar_phrase and the 200 response
FinishSearch(t) ==
    /\ req[t].pc = "encoding"
    /\ \E body \in {SearchBodies[<<matcher[1].model[1],
                                   matcher[1].grupos_embeddings,
                                   req[t].texto>>]} :
        /\ req' = [req EXCEPT ![t] = [pc |-> "done", texto |-> req[t].texto,
                                      status |-> 200, body |-> Some(body)]]
        /\ answers' = [answers EXCEPT ![req[t].texto] = @ \cup {body}]
    /\ UNCHANGED <<search_vars, env, cache_file, matcher, app>>

\* The response is sent and the worker takes the next request
SendResponse(t) ==
    /\ req[t].pc = "done"
    /\ req' = [req EXCEPT ![t] = IdleRequest]
    /\ UNCHANGED <<search_vars, env, cache_file, matcher, app, answers>>

ServiceNext ==
    \/ startup_event
    \/ \E t \in Threads :
        \/ buscar_frase_similar(t)
        \/ LoadModel(t)
        \/ FinishSearch(t)
        \/ SendResponse(t)

SpecService == ServiceInit /\ [][ServiceNext]_vars

(***************************************************************************)
(* Properties of the service.                                              *)
(***************************************************************************)

Serving == pc = "service"

Initialized == Serving /\ app = "up"

\* The requests answered with a search result
Answered(t) == req[t].pc = "done" /\ req[t].status = 200

\* C13: on an initialized matcher every search of one query returns the same
\* result, whatever other searches were answered before it and whichever
\* worker made it.
SearchIsRepeatable ==
    Initialized =>
        /\ \A q \in SearchTexts : Cardinality(answers[q]) <= 1
        /\ \A t \in Threads :
            Answered(t) => answers[req[t].texto] = {req[t].body[1]}

\* Both workers answered the same query, one of them by a model that a
\* search loaded, after a search of the other query was answered
RepeatedSearchAmongOthers ==
    /\ Initialized
    /\ Answered(1) /\ Answered(2)
    /\ req[1].texto = req[2].texto
    /\ matcher[1].model = Some(2)
    /\ \A q \in SearchTexts : answers[q] # {}

\* C14: after a successful initialize(), whatever cache file was there, the
\* matcher holds for every group of the dataset as many embedding rows as the
\* group has phrases, and a centroid.
EmbeddingsMatchDataset ==
    Initialized =>
        \A g \in Range(Groups) :
            /\ matcher[1].grupos_embeddings[g] = matcher[1].grupos_frases[g]
            /\ matcher[1].grupos_frases[g] = Len(grupos_frases[g])
            /\ g \in matcher[1].grupos_centroids

\* startup_event runs initialize() in this step
InitializeStep == Serving /\ app = "created" /\ app' # "created"

\* C15: when the model can be loaded initialize() succeeds whatever the cache
\* file is, and when the file is missing or cannot be read the embeddings
\* of all groups are computed from the dataset and the file holds afterwards
\* the whole of them.
CacheNeverFailsInitialize ==
    [][InitializeStep /\ env.model_available =>
        /\ app' = "up"
        /\ ~(cache_file.exists /\ cache_file.loadable) =>
            /\ matcher'[1].grupos_embeddings = DatasetRows
            /\ cache_file' = CacheOf(DatasetRows)]_vars

\* C16: a step taken once initialize() has completed, which is a step of a
\* search, leaves the matcher's model, phrases, embeddings and centroids and
\* the cache file as they were.
SearchWritesNoSharedState ==
    [][Initialized => matcher' = matcher /\ cache_file' = cache_file]_vars

\* C17: initialize() fails when the model cannot be loaded, and after a
\* successful initialize() no search fails.
ModelFailureSurfacesAtInitialize ==
    Serving =>
        /\ app # "created" /\ ~env.model_available => app = "failed"
        /\ app = "up" => \A t \in Threads : req[t].status # 500

\* C18: a request made while the matcher has not completed initialization is
\* answered 503, and it is not searched nor answered 200.
UninitializedAnswers503 ==
    Serving /\ app # "up" =>
        \A t \in Threads :
            /\ req[t].pc = "done" => req[t].status = 503
            /\ req[t].pc \in {"idle", "done"}

\* C19: a request whose texto is empty or blank is answered 400 without a
\* call of the matcher.
BlankTextoAnswers400 ==
    Serving =>
        \A t \in Threads :
            req[t].pc # "idle" /\ Strip(req[t].texto) = <<>> =>
                req[t].pc = "done" /\ req[t].status = 400

(***************************************************************************)
(* Properties of light_spelling_correction.                                *)
(***************************************************************************)

\* fuzz.ratio of the normalized text qn with every normalized reference phrase
ReferenceScores(qn, reference_phrases) ==
    [n \in 1..Len(reference_phrases) |->
        The({fuzz_ratio(qn, pn) : pn \in {normalize_text(reference_phrases[n])}})]

\* The first position that holds the highest score
FirstBest(scores) ==
    CHOOSE n \in 1..Len(scores) :
        /\ \A m \in 1..Len(scores) : RatioGE(scores[n], scores[m])
        /\ \A m \in 1..(n - 1) : RatioGT(scores[n], scores[m])

\* What the claim says light_spelling_correction returns
BestReferenceOrQuery(text_in, reference_phrases, threshold) ==
    IF reference_phrases = <<>> THEN text_in
    ELSE The({The({IF RatioGE(scores[best], [num |-> threshold, den |-> 1])
                   THEN reference_phrases[best]
                   ELSE text_in :
                        best \in {FirstBest(scores)}}) :
                scores \in {The({ReferenceScores(qn, reference_phrases) :
                                qn \in {normalize_text(text_in)}})}})

\* C21 as stated: light_spelling_correction returns the first reference phrase
\* of the highest score when that score reaches the threshold, and the query
\* otherwise.
CorrectionIsBestReference ==
    pc = "corrected" =>
        text_out.corrected =
            BestReferenceOrQuery(in_text, text_out.reference_phrases,
                                 text_out.threshold)

\* C21: light_spelling_correction returns the first reference phrase of the
\* highest score when that score reaches the threshold and that phrase is not
\* the empty string, and the query otherwise; what it returns is the query or
\* one of the reference phrases.
CorrectionIsBestNonEmptyReference ==
    pc = "corrected" =>
        /\ \E best \in {BestReferenceOrQuery(in_text, text_out.reference_phrases,
                                             text_out.threshold)} :
            text_out.corrected = IF best = <<>> THEN in_text ELSE best
        /\ \/ text_out.corrected = in_text
           \/ text_out.corrected \in Range(text_out.reference_phrases)

\* Two phrases have the highest score, which is above the threshold, and the
\* first one is returned with its original text; the query is neither
TieReturnsFirstReference ==
    /\ pc = "corrected"
    /\ in_text = <<"l","a","!">>
    /\ text_out.reference_phrases = << <<"l","a">>, <<"L","a">> >>
    /\ text_out.corrected = <<"l","a">>

\* A score between the two thresholds is enough under the lower one
CorrectedUnderTestThreshold ==
    /\ pc = "corrected"
    /\ in_text = <<"l","a","c">>
    /\ text_out.threshold = TestThreshold
    /\ text_out.corrected = <<"l","a","c","a","r">>

(***************************************************************************)
(* Properties of the stages of search_similar_phrase.                      *)
(***************************************************************************)

Reranked == Done /\ use_reranking

\* The candidates, by their rank, whose score reaches their threshold
Qualifying(compared) ==
    {k \in 1..Len(compared) : compared[k].score >= compared[k].threshold}

\* The match thresholds as the claim gives them
MatchThresholdsAsStated(compared) ==
    \A k \in 1..Len(compared) :
        compared[k].threshold =
            CASE compared[k].grupo = "A" -> 60
              [] compared[k].grupo = "B" -> 63
              [] compared[k].grupo = "C" -> 78

\* C22: of the at most three candidate groups, find_most_similar_phrase_reranked
\* returns the one with the highest score among those whose score reaches
\* their own threshold (A 0.60, B 0.63, C 0.78), and of several with that
\* score the one ranked first.
HighestQualifyingCandidateWins ==
    Reranked =>
        \A compared \in {trace.compared} :
            /\ Len(compared) <= 3
            /\ MatchThresholdsAsStated(compared)
            /\ \A qualifying \in {Qualifying(compared)} :
                qualifying # {} =>
                    \E k \in qualifying :
                        /\ \A j \in qualifying :
                            /\ compared[j].score <= compared[k].score
                            /\ j < k => compared[j].score < compared[k].score
                        /\ trace.grupo = compared[k].grupo
                        /\ trace.phrase = <<compared[k].grupo, compared[k].max_idx>>
                        /\ trace.stage3_similarity = compared[k].score

\* Two candidates reach their thresholds with the same score, which is the
\* highest, and the one ranked first is returned; a third one does not reach
\* its threshold
TieOfCandidatesGoesToFirstRanked ==
    /\ Reranked
    /\ Len(trace.compared) = 3
    /\ Cardinality(Qualifying(trace.compared)) = 2
    /\ \E j, k \in Qualifying(trace.compared) :
        /\ j < k
        /\ trace.compared[j].score = trace.compared[k].score
        /\ trace.grupo = trace.compared[j].grupo

\* The highest cosine of the query with a phrase of the group
HighestCosine(o, grupo) ==
    CHOOSE c \in {o.phr[p] : p \in {p \in PhraseIds : p[1] = grupo}} :
        \A p \in PhraseIds : p[1] = grupo => o.phr[p] <= c

\* C23: when no candidate reaches its threshold, the result is the phrase of
\* the group ranked first that has the highest cosine, the first such phrase,
\* with that cosine clamped to [0, 1] as the similarity: without boost and
\* without bonus, and whatever the other candidates scored.
FallbackIsBestUnboostedOfTopGroup ==
    Reranked /\ Qualifying(trace.compared) = {} =>
        /\ trace.fallback
        /\ trace.grupo = trace.compared[1].grupo
        /\ \A c \in {HighestCosine(oracle, trace.grupo)} :
            /\ oracle.phr[trace.phrase] = c
            /\ \A i \in 1..(trace.phrase[2] - 1) : oracle.phr[<<trace.grupo, i>>] < c
            /\ trace.stage3_similarity = IF c < 0 THEN 0 ELSE IF c > 100 THEN 100 ELSE c
        /\ trace.phrase[1] = trace.grupo
        /\ trace.frase = grupos_frases[trace.grupo][trace.phrase[2]]

\* A fallback whose phrase is not the one the boost had put first in the
\* group, with a second candidate that scored higher than the first
FallbackIgnoresBoostAndOtherGroups ==
    /\ Reranked
    /\ trace.fallback
    /\ trace.compared[1].max_idx # trace.phrase[2]
    /\ trace.compared[2].score > trace.compared[1].score

\* A single Title-Case token: the condition of line 444 on a query of one word
SingleTitleToken(q) == IsTitleCase(q) /\ Len(Split(q)) = 1

\* C24: the capitalization heuristic sets the spell-out flag exactly when the
\* raw query is a single Title-Case token of more than 2 characters and the
\* similarity of stage 3 is below 0.98; otherwise, and so for every query of
\* two or more words, it leaves the flag as it found it.
CapitalizationOnlyForSingleToken ==
    Done =>
        trace.flag_stage4 =
            (\/ trace.flag_names
             \/ SingleTitleToken(query) /\ trace.stage3_similarity < ExactMatchFloor)

\* The spelling thresholds as the specification states them
SpellingThresholdAsStated(grupo) ==
    CASE grupo = "A" -> 75
      [] grupo = "B" -> 80
      [] grupo = "C" -> 85
      [] OTHER -> 60

\* C25: whenever the length penalty is applied, the final spell-out flag is
\* (penalized similarity < the spelling threshold of the group), whatever the
\* validations of Stage 4 had decided; when no penalty is applied, the flag
\* the validations left is final.
FlagRecomputedOnlyAfterPenalty ==
    Done =>
        IF trace.penalized
        THEN result.deletreo_activado =
                (result.similitud < SpellingThresholdAsStated(trace.grupo))
        ELSE result.deletreo_activado = trace.flag_stage4

\* A match returned although the validations of Stage 4 had forced the
\* spelling: the recomputation after the penalty replaced their decision
PenaltyOverridesValidations ==
    /\ Done
    /\ trace.penalized
    /\ trace.flag_stage4
    /\ ~trace.flag_threshold
    /\ ~result.deletreo_activado

\* The boost of every phrase as the specification states it, from the number
\* of words of the phrase
BoostAsStated ==
    [p \in PhraseIds |->
        The({IF words >= 3 THEN 15 ELSE IF words = 2 THEN 8 ELSE 0 :
                words \in {Len(Split(grupos_frases[p[1]][p[2]]))}})]

Clamp01(x) == IF x < 0 THEN 0 ELSE IF x > 100 THEN 100 ELSE x

\* The cosine of phrase p plus its boost
BoostedCosine(o, p) == o.phr[p] + BoostAsStated[p]

\* The largest boosted cosine of a group
HighestBoosted(o, grupo) ==
    The({CHOOSE b \in all : \A other \in all : other <= b :
            all \in {{BoostedCosine(o, p) : p \in {p \in PhraseIds : p[1] = grupo}}}})

\* C26: the score of each candidate group that is compared with the match
\* threshold is clamp01(clamp01(max over the phrases of the group of
\* (cosine + b)) + t), b being 0.15 for 3 or more words, 0.08 for 2 words and
\* 0 for one word, t being 0.05 for the group ranked first and 0 for the
\* others; the phrase reported for the group is the arg-max of the boosted
\* scores.
CandidateScoreFormula ==
    Reranked =>
        /\ \A k \in 1..Len(trace.compared) :
            \A cand \in {trace.compared[k]} :
                \A b \in {HighestBoosted(oracle, cand.grupo)} :
                    /\ cand.score =
                          Clamp01(Clamp01(b) + (IF k = 1 THEN 5 ELSE 0))
                    /\ BoostedCosine(oracle, <<cand.grupo, cand.max_idx>>) = b
        /\ ~trace.fallback =>
              BoostedCosine(oracle, trace.phrase)
                  = HighestBoosted(oracle, trace.grupo)

\* The first candidate exceeds 1.0 with its boost and scores 1.0, and another
\* candidate reports a phrase of two words that the boost alone put ahead of
\* a phrase with a higher cosine
BoostDecidesPhraseAndIsClamped ==
    /\ Reranked
    /\ Len(trace.compared) >= 2
    /\ trace.compared[1].boosted > 100
    /\ trace.compared[1].score = 100
    /\ \E k \in 2..Len(trace.compared) :
        \E cand \in {trace.compared[k]} :
            /\ BoostAsStated[<<cand.grupo, cand.max_idx>>] = 8
            /\ \E i \in 1..Len(grupos_frases[cand.grupo]) :
                oracle.phr[<<cand.grupo, i>>]
                    > oracle.phr[<<cand.grupo, cand.max_idx>>]

\* The query is one word of 3 to 8 characters
OneShortWord(q) ==
    \E words \in {Split(QueryNormalized(q))} :
        Len(words) = 1 /\ 3 <= Len(words[1]) /\ Len(words[1]) <= 8

\* C27: the heuristic of the unknown single short word forces the spelling
\* exactly when the query is one word of 3 to 8 characters, is not a known
\* name, its normalized form (case-folded, accents and punctuation stripped)
\* is not among the normalized dataset words and the extra words, and the
\* Stage-3 similarity s satisfies 0.50 <= s < 0.85; a query whose normalized
\* form is a dataset word is never spelled out by this heuristic.
UnknownWordUsesNormalizedForm ==
    Done =>
        trace.flag_names =
            (\/ trace.flag_threshold
             \/ /\ OneShortWord(query)
                /\ \/ QueryNormalized(query) \in COMMON_SPANISH_NAMES
                   \/ /\ normalize_text(query) \notin palabras_conocidas
                      /\ 50 <= trace.stage3_similarity
                      /\ trace.stage3_similarity < 85)

\* The position of a group in the order in which the groups are stored
StoredPosition(grupo) == CHOOSE k \in 1..Len(Groups) : Groups[k] = grupo

\* The number of candidate groups Stage 3 asks for (line 295)
CandidateGroups == 3

\* C28: find_best_groups with top_k = 3 returns min(3, number of groups)
\* pairs (group, similarity), each similarity clamped to [0, 1], in
\* non-increasing order of similarity, groups of equal similarity in the
\* order in which the groups are stored; Stage 3 visits the groups in this
\* order.
TopGroupsAreSortedAndStable ==
    Done =>
        \A top_groups \in {find_best_groups(oracle, CandidateGroups)} :
            /\ Len(top_groups) = Min2(CandidateGroups, Len(Groups))
            /\ \A k \in 1..Len(top_groups) :
                /\ top_groups[k].grupo \in Range(Groups)
                /\ top_groups[k].similarity =
                      Clamp01(oracle.cent[top_groups[k].grupo])
            /\ \A i, j \in 1..Len(top_groups) :
                i < j =>
                    \/ top_groups[i].similarity > top_groups[j].similarity
                    \/ /\ top_groups[i].similarity = top_groups[j].similarity
                       /\ StoredPosition(top_groups[i].grupo)
                            < StoredPosition(top_groups[j].grupo)
            /\ \A top_k \in 1..(CandidateGroups - 1) :
                find_best_groups(oracle, top_k) = SubSeq(top_groups, 1, top_k)
            /\ IF use_reranking
               THEN /\ Len(trace.compared) = Len(top_groups)
                    /\ \A k \in 1..Len(top_groups) :
                        trace.compared[k].grupo = top_groups[k].grupo
               ELSE trace.grupo = top_groups[1].grupo

\* Two groups tie at the top and a third ties with nothing after its negative
\* cosine was clamped: the candidates are visited in the order B, C, A
TiedGroupsKeepStoredOrder ==
    /\ Reranked
    /\ oracle.cent["A"] < 0
    /\ oracle.cent["B"] = oracle.cent["C"]
    /\ oracle.cent["B"] > 0
    /\ Len(trace.compared) = 3
    /\ trace.compared[1].grupo = "B"
    /\ trace.compared[2].grupo = "C"
    /\ trace.compared[3].grupo = "A"

\* The match thresholds as the specification states them
StatedMatchThreshold(grupo) ==
    CASE grupo = "A" -> 60
      [] grupo = "B" -> 63
      [] grupo = "C" -> 78
      [] OTHER -> 70

\* C29: whenever Stage 3 takes the fallback and the group ranked first is one
\* of A, B, C, the answer is a spell-out with grupo null: the fallback score
\* is below the match threshold of the group, which is below its spelling
\* threshold, and no later stage raises the score.
FallbackIsSpelledOut ==
    Done /\ trace.fallback /\ trace.grupo \in {"A", "B", "C"} =>
        /\ result.deletreo_activado
        /\ result.grupo = None
        /\ trace.stage3_similarity < StatedMatchThreshold(trace.grupo)
        /\ StatedMatchThreshold(trace.grupo) < trace.spell_out_threshold
        /\ result.similitud <= trace.stage3_similarity

\* A fallback with a score above one half, spelled out
FallbackJustBelowThreshold ==
    /\ Done
    /\ trace.fallback
    /\ trace.stage3_similarity >= 50
    /\ result.deletreo_activado
    /\ result.grupo = None

\* C30: when the canonical query equals the normalized text of a catalog
\* phrase P and the answer is a match, frase_similar is P itself: neither the
\* length boost nor the bonus of the first group puts a different phrase in
\* its place (in a search with re-ranking, where boost and bonus act).
ExactPhraseIsNeverDisplaced ==
    Reranked /\ ~result.deletreo_activado =>
        \A exact \in {ExactPhrases(QueryFacts[query].canonical)} :
            exact # {} =>
                /\ trace.phrase \in exact
                /\ result.frase_similar
                      = grupos_frases[trace.phrase[1]][trace.phrase[2]]

====
